---- MODULE Spec2Model ----
(***************************************************************************)
(* Model of messenger.go: the Messenger adapter of the Facebook Messenger  *)
(* platform.  Two halves:                                                  *)
(*   - the webhook side: ServeHTTP = DecodeRequest, VerifyWebhook and the  *)
(*     dispatch loop that starts one goroutine per matching event;         *)
(*   - the outbound side: SendMessage / SendTextMessage / GetClient /      *)
(*     decodeResponse.                                                     *)
(***************************************************************************)
EXTENDS Integers, Sequences, FiniteSets, TLC

VARIABLES
    msng,       \* the Messenger instance: VerifyToken, AccessToken, handlers, apiURL, HttpClient
    pc,         \* position of the goroutine running ServeHTTP: "new", "idle", "dispatch", "returned"
    r,          \* the *http.Request being served: form values and body
    fbRq,       \* the FacebookRequest DecodeRequest returned
    decodeErr,  \* the error DecodeRequest returned, which ServeHTTP assigns to _
    w,          \* the http.ResponseWriter: the sequence of Write calls
    k,          \* number of messaging events the loop has gone through
    tasks,      \* the goroutines ServeHTTP has started, in start order
    TestURL,    \* the package variable TestURL
    ref,        \* a second Messenger, configured like msng, that only ever runs SendMessage
    posts,      \* the requests msng has posted, in order: URL and message
    refPosts,   \* the requests ref has posted
    results,    \* the sends on msng so far: the call, its inputs and what it came to
    refResults  \* the sends on ref so far

webVars  == <<pc, r, fbRq, decodeErr, w, k, tasks>>
sendVars == <<TestURL, ref, posts, refPosts, results, refResults>>
vars     == <<msng, pc, r, fbRq, decodeErr, w, k, tasks,
              TestURL, ref, posts, refPosts, results, refResults>>

----------------------------------------------------------------------------
(* Bounds of the model *)

\* most messaging events in one batch request
MaxEvents == 2
\* most sends on one adapter instance
MaxSends == 2

----------------------------------------------------------------------------
(* The webhook side: data *)

\* the five payload variants, in the order of the switch's cases
Variants == <<"Message", "Delivery", "Postback", "Optin", "Read">>

VariantSet == {Variants[i] : i \in 1..Len(Variants)}

\* position of a variant in the switch
Priority(v) == CHOOSE i \in 1..Len(Variants) : Variants[i] = v

\* a pointer field: <<>> is nil, <<x>> points to x
NilPtr == <<>>

SenderIDs == {1, 2}

\* a messaging event: Sender.ID and the five optional payload pointers
Event(sender, populated) ==
    [Sender  |-> [ID |-> sender],
     Payload |-> [v \in VariantSet |->
                    IF v \in populated THEN <<[kind |-> v, from |-> sender]>> ELSE NilPtr]]

Populated(msg) == {v \in VariantSet : msg.Payload[v] # NilPtr}

\* the zero value of FacebookRequest
ZeroRequest == [Entry |-> <<>>]

\* the form parameters of the verification handshake
ParamNames == {"hub.mode", "hub.verify_token", "hub.challenge"}

\* r.FormValue(name): the empty string when the parameter is absent
FormValue(rq, name) == IF name \in DOMAIN rq.form THEN rq.form[name] ELSE ""

\* the body of an inbound request, as encoding/json sees it: whether it is
\* syntactically JSON, whether every value fits the type of its field, and the
\* entries that the values that do fit make up
Body(syntaxOK, typeOK, entry) == [syntaxOK |-> syntaxOK, typeOK |-> typeOK, Entry |-> entry]

Request(form, body) == [form |-> form, body |-> body]

----------------------------------------------------------------------------
(* The webhook side: operations *)

\* New: the access token and the page id are set, everything else is zero
New(accessToken, pageID) ==
    [AccessToken |-> accessToken,
     VerifyToken |-> "",
     PageID      |-> pageID,
     HttpClient  |-> NilPtr,
     apiURL      |-> <<>>,
     handlers    |-> {}]

\* DecodeRequest: json.NewDecoder(r.Body).Decode(&fbRq).  A syntax error is
\* found before anything is stored; a value of the wrong type is skipped and
\* reported after the rest has been stored.
DecodeRequest(rq) ==
    IF ~rq.body.syntaxOK
    THEN [fbRq |-> ZeroRequest, err |-> "SyntaxError"]
    ELSE IF ~rq.body.typeOK
         THEN [fbRq |-> [Entry |-> rq.body.Entry], err |-> "UnmarshalTypeError"]
         ELSE [fbRq |-> [Entry |-> rq.body.Entry], err |-> "nil"]

\* VerifyWebhook echoing the token it compared instead of the challenge
VerifyWebhookEchoesToken(m, wr, rq) ==
    IF FormValue(rq, "hub.mode") = "subscribe"
    THEN IF FormValue(rq, "hub.verify_token") = m.VerifyToken
         THEN Append(wr, FormValue(rq, "hub.verify_token"))
         ELSE wr
    ELSE wr

\* VerifyWebhook: the writer after the call
VerifyWebhook(m, wr, rq) ==
    IF FormValue(rq, "hub.mode") = "subscribe"
    THEN IF FormValue(rq, "hub.verify_token") = m.VerifyToken
         THEN Append(wr, FormValue(rq, "hub.challenge"))
         ELSE wr
    ELSE wr

\* the two range loops of ServeHTTP: the messaging events in the order the
\* loops visit them, each with its entry and its index in the entry
RECURSIVE EventsFrom(_, _, _)
EventsFrom(entries, i, j) ==
    IF i > Len(entries) THEN <<>>
    ELSE IF j > Len(entries[i].Messaging) THEN EventsFrom(entries, i + 1, 1)
    ELSE <<[entry |-> i, idx |-> j, msg |-> entries[i].Messaging[j]]>>
         \o EventsFrom(entries, i, j + 1)

\* the loops visiting the entries from the last to the first
EventsBackwards(rq) ==
    [n \in 1..Len(EventsFrom(rq.Entry, 1, 1)) |->
        EventsFrom(rq.Entry, 1, 1)[Len(EventsFrom(rq.Entry, 1, 1)) + 1 - n]]

Events(rq) == EventsFrom(rq.Entry, 1, 1)

\* the cases of the switch whose condition holds for msg
Matching(m, msg) == {v \in VariantSet : msg.Payload[v] # NilPtr /\ v \in m.handlers}

\* a switch on the populated variant alone, with the handler tested inside the case
SwitchOnPopulated(m, msg) ==
    IF Populated(msg) = {} THEN <<>>
    ELSE LET v == CHOOSE x \in Populated(msg) :
                      \A u \in Populated(msg) : Priority(x) <= Priority(u)
         IN  IF v \in m.handlers THEN <<v>> ELSE <<>>

\* five independent if statements instead of one switch
SwitchEveryCase(m, msg) ==
    LET pick[n \in 0..Len(Variants)] ==
            IF n = 0 THEN <<>>
            ELSE IF Variants[n] \in Matching(m, msg)
                 THEN Append(pick[n - 1], Variants[n]) ELSE pick[n - 1]
    IN  pick[Len(Variants)]

\* the switch: the handlers ServeHTTP starts for msg, the first case that holds
Switch(m, msg) ==
    IF Matching(m, msg) = {} THEN <<>>
    ELSE <<CHOOSE v \in Matching(m, msg) :
              \A u \in Matching(m, msg) : Priority(v) <= Priority(u)>>

\* the invocation with userID left at its zero value
InvocationZeroUser(ev, v) ==
    [entry   |-> ev.entry,
     idx     |-> ev.idx,
     handler |-> v,
     msng    |-> "msng",
     userID  |-> 0,
     payload |-> ev.msg.Payload[v][1],
     status  |-> "running"]

\* go msng.<V>Received(msng, userID, *msg.<V>)
Invocation(ev, v) ==
    [entry   |-> ev.entry,
     idx     |-> ev.idx,
     handler |-> v,
     msng    |-> "msng",
     userID  |-> ev.msg.Sender.ID,
     payload |-> ev.msg.Payload[v][1],
     status  |-> "running"]

\* the goroutines the go statements of one loop iteration start
Started(m, ev) == [n \in 1..Len(Switch(m, ev.msg)) |-> Invocation(ev, Switch(m, ev.msg)[n])]

\* the loops are over
LoopDone(rq, n) == n = Len(Events(rq))

----------------------------------------------------------------------------
(* The webhook side: inputs *)

VerifyTokens == {"", "abc"}

Forms ==
    {f \in UNION {[D -> {"subscribe", "unsubscribe", "abc", "xyz", "999"}] : D \in SUBSET ParamNames} :
        /\ "hub.mode" \in DOMAIN f => f["hub.mode"] \in {"subscribe", "unsubscribe"}
        /\ "hub.verify_token" \in DOMAIN f => f["hub.verify_token"] \in {"abc", "xyz"}
        /\ "hub.challenge" \in DOMAIN f => f["hub.challenge"] = "999"}

NoForm == [n \in {} |-> ""]

AllEvents == {Event(s, p) : s \in SenderIDs, p \in SUBSET VariantSet}

BatchEvents == {Event(1, {"Message"}), Event(2, {"Delivery", "Read"})}

Entry(messaging) == [Messaging |-> messaging]

SeqsUpTo(S, n) == UNION {[1..m -> S] : m \in 0..n}

RECURSIVE Sum(_)
Sum(s) == IF s = <<>> THEN 0 ELSE Len(Head(s).Messaging) + Sum(Tail(s))

\* batches of at most MaxEvents events, split into entries in every way
BatchEntries ==
    {es \in SeqsUpTo({Entry(ms) : ms \in SeqsUpTo(BatchEvents, MaxEvents)}, MaxEvents) :
        Sum(es) <= MaxEvents}

\* one event of any shape, in a body that decodes or in one with a misfit value
EventRequests ==
    {Request(NoForm, Body(TRUE, t, <<Entry(<<e>>)>>)) : t \in BOOLEAN, e \in AllEvents}

BatchRequests == {Request(NoForm, Body(TRUE, TRUE, es)) : es \in BatchEntries}

\* the handshake, with a body that is no JSON or with one event
VerifyRequests ==
    {Request(f, b) : f \in Forms,
                     b \in {Body(FALSE, TRUE, <<>>),
                            Body(TRUE, TRUE, <<Entry(<<Event(1, {"Message"})>>)>>)}}

Requests == EventRequests \cup BatchRequests \cup VerifyRequests

----------------------------------------------------------------------------
(* The webhook side: actions *)

\* the application sets the exported fields after New
Configure(vt, hs) ==
    /\ pc = "new"
    /\ msng' = [msng EXCEPT !.VerifyToken = vt, !.handlers = hs]
    /\ pc' = "idle"
    /\ UNCHANGED <<r, fbRq, decodeErr, w, k, tasks>>
    /\ UNCHANGED sendVars

\* ServeHTTP up to the loop: DecodeRequest, then VerifyWebhook
ServeHTTPBegin(rq) ==
    /\ pc = "idle"
    /\ r' = rq
    /\ fbRq' = DecodeRequest(rq).fbRq
    /\ decodeErr' = DecodeRequest(rq).err
    /\ w' = VerifyWebhook(msng, w, rq)
    /\ k' = 0
    /\ pc' = "dispatch"
    /\ UNCHANGED <<msng, tasks>>
    /\ UNCHANGED sendVars

\* one iteration of the inner loop
ServeHTTPDispatch ==
    /\ pc = "dispatch"
    /\ k < Len(Events(fbRq))
    /\ tasks' = tasks \o Started(msng, Events(fbRq)[k + 1])
    /\ k' = k + 1
    /\ UNCHANGED <<msng, pc, r, fbRq, decodeErr, w>>
    /\ UNCHANGED sendVars

\* ServeHTTP waiting for the goroutines it started before it returns
ServeHTTPReturnAfterHandlers ==
    /\ pc = "dispatch"
    /\ LoopDone(fbRq, k)
    /\ \A i \in DOMAIN tasks : tasks[i].status # "running"
    /\ pc' = "returned"
    /\ UNCHANGED <<msng, r, fbRq, decodeErr, w, k, tasks>>
    /\ UNCHANGED sendVars

ServeHTTPReturn ==
    /\ pc = "dispatch"
    /\ LoopDone(fbRq, k)
    /\ pc' = "returned"
    /\ UNCHANGED <<msng, r, fbRq, decodeErr, w, k, tasks>>
    /\ UNCHANGED sendVars

\* a handler goroutine runs to its end
HandlerReturns(i) ==
    /\ tasks[i].status = "running"
    /\ tasks' = [tasks EXCEPT ![i].status = "done"]
    /\ UNCHANGED <<msng, pc, r, fbRq, decodeErr, w, k>>
    /\ UNCHANGED sendVars

\* a handler goroutine gives up on its work
HandlerFails(i) ==
    /\ tasks[i].status = "running"
    /\ tasks' = [tasks EXCEPT ![i].status = "failed"]
    /\ UNCHANGED <<msng, pc, r, fbRq, decodeErr, w, k>>
    /\ UNCHANGED sendVars

ValidToken == "tok"

Init ==
    /\ msng = New(ValidToken, "page")
    /\ ref = New(ValidToken, "page")
    /\ pc = "new"
    /\ r = Request(NoForm, Body(FALSE, TRUE, <<>>))
    /\ fbRq = ZeroRequest
    /\ decodeErr = "nil"
    /\ w = <<>>
    /\ k = 0
    /\ tasks = <<>>
    /\ TestURL = ""
    /\ posts = <<>>
    /\ refPosts = <<>>
    /\ results = <<>>
    /\ refResults = <<>>

ServeNext ==
    \/ \E vt \in VerifyTokens, hs \in SUBSET VariantSet : Configure(vt, hs)
    \/ \E rq \in Requests : ServeHTTPBegin(rq)
    \/ ServeHTTPDispatch
    \/ ServeHTTPReturn
    \/ \E i \in DOMAIN tasks : HandlerReturns(i)
    \/ \E i \in DOMAIN tasks : HandlerFails(i)

Spec == Init /\ [][ServeNext]_vars

\* the goroutine running ServeHTTP is scheduled; nothing is assumed of the handlers
\* the variants the batch events populate
BatchVariants == UNION {Populated(e) : e \in BatchEvents}

\* over the batch requests, where handlers run while the loop goes on
LiveNext ==
    \/ \E vt \in VerifyTokens, hs \in SUBSET BatchVariants : Configure(vt, hs)
    \/ \E rq \in BatchRequests : ServeHTTPBegin(rq)
    \/ ServeHTTPDispatch
    \/ ServeHTTPReturn
    \/ \E i \in DOMAIN tasks : HandlerReturns(i)
    \/ \E i \in DOMAIN tasks : HandlerFails(i)

LiveSpec == Init /\ [][LiveNext]_vars /\ WF_vars(ServeHTTPDispatch) /\ WF_vars(ServeHTTPReturn)

----------------------------------------------------------------------------
(* The webhook side: properties *)

Serving == pc \in {"dispatch", "returned"}

\* the events the loop has gone through
Visited == {Events(fbRq)[n] : n \in 1..k}

\* the goroutines started for an event
TasksOf(ev) == {i \in DOMAIN tasks : tasks[i].entry = ev.entry /\ tasks[i].idx = ev.idx}

\* the first populated variant of an event, in the order of the switch
FirstPopulated(msg) ==
    CHOOSE v \in Populated(msg) : \A u \in Populated(msg) : Priority(v) <= Priority(u)

\* C1 as stated: the first populated variant alone decides; its handler is
\* invoked if registered, and otherwise no handler is invoked for the event
C1_FirstPopulatedDecides ==
    \A ev \in Visited :
        IF Populated(ev.msg) # {} /\ FirstPopulated(ev.msg) \in msng.handlers
        THEN /\ TasksOf(ev) # {}
             /\ \A i \in TasksOf(ev) : tasks[i].handler = FirstPopulated(ev.msg)
        ELSE TasksOf(ev) = {}

\* C1 amended: the handler invoked for an event is that of the first variant, in
\* priority order, that is both populated and registered; no handler is invoked
\* exactly when no populated variant has a registered handler
C1_FirstPopulatedAndRegistered ==
    \A ev \in Visited :
        /\ \A i \in TasksOf(ev) :
              /\ tasks[i].handler \in Populated(ev.msg) \cap msng.handlers
              /\ \A u \in Populated(ev.msg) \cap msng.handlers :
                    Priority(tasks[i].handler) <= Priority(u)
        /\ (TasksOf(ev) = {}) <=> (Populated(ev.msg) \cap msng.handlers = {})

\* an event whose first populated variant has no handler, and a later one fired
C1_Witness ==
    \E ev \in Visited :
        /\ Populated(ev.msg) # {}
        /\ FirstPopulated(ev.msg) \notin msng.handlers
        /\ \E i \in TasksOf(ev) : Priority(tasks[i].handler) > Priority(FirstPopulated(ev.msg))

\* C2: at most one invocation is started for each event, none for an event the
\* loop has not reached, and never more invocations than events
C2_AtMostOnePerEvent ==
    /\ \A n \in 1..Len(Events(fbRq)) :
          Cardinality(TasksOf(Events(fbRq)[n])) <= (IF n <= k THEN 1 ELSE 0)
    /\ Len(tasks) <= k
    /\ k <= Len(Events(fbRq))

\* an event with several populated variants, all registered, and one invocation
C2_Witness ==
    /\ pc = "returned"
    /\ \E ev \in Visited :
          /\ Cardinality(Populated(ev.msg) \cap msng.handlers) >= 2
          /\ Cardinality(TasksOf(ev)) = 1

\* C3: an event with exactly one populated variant V, V's handler registered:
\* exactly one invocation, of V's handler, with the adapter, the sender id and
\* the V payload of the event
C3_SingleVariantInvocation ==
    \A ev \in Visited : \A v \in VariantSet :
        (Populated(ev.msg) = {v} /\ v \in msng.handlers) =>
            /\ Cardinality(TasksOf(ev)) = 1
            /\ \A i \in TasksOf(ev) :
                  /\ tasks[i].handler = v
                  /\ tasks[i].msng = "msng"
                  /\ tasks[i].userID = ev.msg.Sender.ID
                  /\ tasks[i].payload = ev.msg.Payload[v][1]

\* a Read-only event from sender 2 dispatched while all five handlers are registered
C3_Witness ==
    /\ msng.handlers = VariantSet
    /\ \E ev \in Visited :
          /\ Populated(ev.msg) = {"Read"}
          /\ ev.msg.Sender.ID = 2
          /\ \E i \in TasksOf(ev) : tasks[i].handler = "Read"

\* the verification fails in the sense of the handshake: wrong or absent mode,
\* wrong or absent token, or absent challenge
VerificationFails(m, rq) ==
    \/ "hub.mode" \notin DOMAIN rq.form
    \/ "hub.verify_token" \notin DOMAIN rq.form
    \/ "hub.challenge" \notin DOMAIN rq.form
    \/ rq.form["hub.mode"] # "subscribe"
    \/ rq.form["hub.verify_token"] # m.VerifyToken

\* C4: a request that fails the verification gets no response body
C4_NoBodyOnFailure ==
    (Serving /\ VerificationFails(msng, r)) => \A n \in DOMAIN w : w[n] = ""

\* C5: a request with mode "subscribe" and the configured token gets the
\* challenge as its body, in one write and nothing else
C5_ChallengeEchoed ==
    (Serving /\ FormValue(r, "hub.mode") = "subscribe"
             /\ FormValue(r, "hub.verify_token") = msng.VerifyToken)
        => w = <<FormValue(r, "hub.challenge")>>

\* the handshake of the scenario: token abc, challenge 999
C5_Witness ==
    /\ pc = "returned"
    /\ msng.VerifyToken = "abc"
    /\ r.form = [n \in ParamNames |->
                    CASE n = "hub.mode" -> "subscribe"
                      [] n = "hub.verify_token" -> "abc"
                      [] n = "hub.challenge" -> "999"]
    /\ w = <<"999">>

C8_DecodeErrorNoHandler ==
    (Serving /\ decodeErr # "nil") => tasks = <<>>

\* C9: the goroutines are started in array order: by entry, then by position
\* within the entry
C9_StartedInArrayOrder ==
    \A a, b \in DOMAIN tasks :
        a < b => \/ tasks[a].entry < tasks[b].entry
                 \/ tasks[a].entry = tasks[b].entry /\ tasks[a].idx < tasks[b].idx

\* the handler of a later event of the same entry has completed while the
\* handler of an earlier one is still running
C9_Witness ==
    \E a, b \in DOMAIN tasks :
        /\ tasks[a].entry = tasks[b].entry
        /\ tasks[a].idx < tasks[b].idx
        /\ tasks[a].status = "running"
        /\ tasks[b].status = "done"

----------------------------------------------------------------------------
(* The outbound side: data *)

\* const apiURL
apiURL == "https://graph.facebook.com/v2.6/"

\* a URL is the sequence of the strings concatenated into it; <<>> is ""
URLOf(base, token) == <<base, "me/messages?access_token=", token>>

\* base URLs and tokens net/url cannot parse: a first path segment with a
\* colon, a control character
UnparsableBases == {"127.0.0.1:8080/"}

UnparsableTokens == {"tok\n"}

\* http.NewRequest: nil and an error when url.Parse rejects the URL
NewRequest(method, url, body) ==
    IF url[1] \in UnparsableBases \/ url[3] \in UnparsableTokens
    THEN [req |-> NilPtr, err |-> [type |-> "url.Error"]]
    ELSE [req |-> <<[Method |-> method, URL |-> url, Body |-> body,
                     ContentType |-> ""]>>,
          err |-> [type |-> "nil"]]

NilErr == [type |-> "nil"]

\* FacebookResponse{}
ZeroResponse == [MessageID |-> "", RecipientID |-> 0]

\* NewTextMessage: the text message for a recipient
NewTextMessage(receiverID, text) ==
    [recipient |-> [id |-> receiverID], message |-> [text |-> text]]

\* FacebookError.Error(): the error that carries the platform's error payload
FacebookErrorError(e) == [type |-> "FacebookError", message |-> e.message, code |-> e.code]

----------------------------------------------------------------------------
(* The outbound side: operations *)

\* GetClient: the instance after the call and the client returned
GetClient(m) ==
    IF m.HttpClient = NilPtr
    THEN [msng |-> [m EXCEPT !.HttpClient = <<"http.Client{}">>], client |-> <<"http.Client{}">>]
    ELSE [msng |-> m, client |-> m.HttpClient]

\* decodeResponse: what SendMessage returns once the round trip has succeeded
decodeResponse(resp) ==
    IF ~resp.syntaxOK
    THEN [kind |-> "returned", resp |-> ZeroResponse, err |-> [type |-> "SyntaxError"], decoded |-> TRUE]
    ELSE IF resp.Error # NilPtr
         THEN [kind |-> "returned", resp |-> ZeroResponse,
               err |-> FacebookErrorError(resp.Error[1]), decoded |-> TRUE]
         ELSE [kind |-> "returned",
               resp |-> [MessageID |-> resp.MessageID, RecipientID |-> resp.RecipientID],
               err |-> NilErr, decoded |-> TRUE]

\* the URL SendMessage posts to: msng.apiURL, built on first use
TargetURL(m, testURL) ==
    IF m.apiURL = <<>>
    THEN IF testURL # "" THEN URLOf(testURL, m.AccessToken) ELSE URLOf(apiURL, m.AccessToken)
    ELSE m.apiURL

\* SendMessage on the instance m: the instance after the call, the requests
\* handed to the client, and the outcome.  net is what the round trip comes
\* to: a transport error, or a response.
SendMessage(m, testURL, message, net) ==
    LET m1  == [m EXCEPT !.apiURL = TargetURL(m, testURL)]
        rq  == NewRequest("POST", m1.apiURL, message)
    IN  IF rq.req = NilPtr
        THEN \* req.Header.Set on a nil *http.Request
             [msng |-> m1, posted |-> <<>>, out |-> [kind |-> "panic"]]
        ELSE LET c == GetClient(m1)
                 sent == [rq.req[1] EXCEPT !.ContentType = "application/json"]
             IN  IF net.err # NilErr
                 THEN [msng |-> c.msng, posted |-> <<sent>>,
                       out |-> [kind |-> "returned", resp |-> ZeroResponse,
                                err |-> net.err, decoded |-> FALSE]]
                 ELSE [msng |-> c.msng, posted |-> <<sent>>, out |-> decodeResponse(net.resp)]

\* SendTextMessage has a value receiver: SendMessage runs on a copy of the
\* instance, and the instance stays as it was
SendTextMessage(m, testURL, receiverID, text, net) ==
    LET copy == m
        done == SendMessage(copy, testURL, NewTextMessage(receiverID, text), net)
    IN  [msng |-> m, posted |-> done.posted, out |-> done.out]

----------------------------------------------------------------------------
(* The outbound side: inputs *)

TestURLs == {"", "http://mock/", "127.0.0.1:8080/"}

AccessTokens == {ValidToken, "tok\n"}

Texts == {"hi"}

Recipients == {7}

\* a message that is no text message
ImageMessage == [recipient |-> [id |-> 7], message |-> [attachment |-> "image"]]

Messages == {ImageMessage} \cup {NewTextMessage(rid, t) : rid \in Recipients, t \in Texts}

Response(syntaxOK, error, mid, rid) ==
    [syntaxOK |-> syntaxOK, Error |-> error, MessageID |-> mid, RecipientID |-> rid]

\* what a round trip can come to
Outcomes ==
    {[err |-> [type |-> "transport"], resp |-> Response(FALSE, NilPtr, "", 0)],
     [err |-> NilErr, resp |-> Response(FALSE, NilPtr, "", 0)],
     [err |-> NilErr, resp |-> Response(TRUE, <<[message |-> "Invalid OAuth", code |-> 190]>>, "", 0)],
     [err |-> NilErr, resp |-> Response(TRUE, NilPtr, "mid.1", 7)]}

----------------------------------------------------------------------------
(* The outbound side: actions.  ref is given every call msng is given, with
   SendMessage(NewTextMessage(..)) wherever msng is given SendTextMessage. *)

Call(name, testURL, net, done) ==
    [call |-> name, TestURL |-> testURL, net |-> net, out |-> done.out]

\* the application builds its adapter with another access token
SetAccessToken(t) ==
    /\ results = <<>>
    /\ msng.AccessToken # t
    /\ msng' = [msng EXCEPT !.AccessToken = t]
    /\ ref' = [ref EXCEPT !.AccessToken = t]
    /\ UNCHANGED <<TestURL, posts, refPosts, results, refResults>>
    /\ UNCHANGED webVars

\* the application injects its own HTTP client
SetHttpClient ==
    /\ results = <<>>
    /\ msng.HttpClient = NilPtr
    /\ msng' = [msng EXCEPT !.HttpClient = <<"injected">>]
    /\ ref' = [ref EXCEPT !.HttpClient = <<"injected">>]
    /\ UNCHANGED <<TestURL, posts, refPosts, results, refResults>>
    /\ UNCHANGED webVars

\* a test sets or clears the package variable
SetTestURL(u) ==
    /\ TestURL # u
    /\ Len(results) < MaxSends
    /\ TestURL' = u
    /\ UNCHANGED <<msng, ref, posts, refPosts, results, refResults>>
    /\ UNCHANGED webVars

DoSendMessage(message, net) ==
    /\ Len(results) < MaxSends
    /\ LET a == SendMessage(msng, TestURL, message, net)
           b == SendMessage(ref, TestURL, message, net)
       IN  /\ msng' = a.msng
           /\ posts' = posts \o a.posted
           /\ results' = Append(results, Call("SendMessage", TestURL, net, a))
           /\ ref' = b.msng
           /\ refPosts' = refPosts \o b.posted
           /\ refResults' = Append(refResults, Call("SendMessage", TestURL, net, b))
    /\ UNCHANGED TestURL
    /\ UNCHANGED webVars

DoSendTextMessage(receiverID, text, net) ==
    /\ Len(results) < MaxSends
    /\ LET a == SendTextMessage(msng, TestURL, receiverID, text, net)
           b == SendMessage(ref, TestURL, NewTextMessage(receiverID, text), net)
       IN  /\ msng' = a.msng
           /\ posts' = posts \o a.posted
           /\ results' = Append(results, Call("SendTextMessage", TestURL, net, a))
           /\ ref' = b.msng
           /\ refPosts' = refPosts \o b.posted
           /\ refResults' = Append(refResults, Call("SendMessage", TestURL, net, b))
    /\ UNCHANGED TestURL
    /\ UNCHANGED webVars

SendNext ==
    \/ \E t \in AccessTokens : SetAccessToken(t)
    \/ SetHttpClient
    \/ \E u \in TestURLs : SetTestURL(u)
    \/ \E m \in Messages, net \in Outcomes : DoSendMessage(m, net)
    \/ \E rid \in Recipients, t \in Texts, net \in Outcomes : DoSendTextMessage(rid, t, net)

SendSpec == Init /\ [][SendNext]_vars

----------------------------------------------------------------------------
(* The outbound side: properties *)

\* the round trip succeeded, the body decoded and holds no error object
RoundTripClean(net) == net.err = NilErr /\ net.resp.syntaxOK /\ net.resp.Error = NilPtr

\* C7: SendMessage returns a success exactly when the round trip succeeded, the
\* body decoded and holds no error object; in every other case it returns a
\* failure with a zero-value response: the transport error, undecoded, the
\* decode error, or the platform's error
C7_SuccessOrFailure ==
    \A n \in DOMAIN results :
        LET c == results[n] IN
        c.call = "SendMessage" =>
            /\ c.out.kind = "returned"
            /\ IF RoundTripClean(c.net)
               THEN /\ c.out.err = NilErr
                    /\ c.out.resp = [MessageID |-> c.net.resp.MessageID,
                                     RecipientID |-> c.net.resp.RecipientID]
               ELSE /\ c.out.err # NilErr
                    /\ c.out.resp = ZeroResponse
                    /\ c.net.err # NilErr => (c.out.err = c.net.err /\ ~c.out.decoded)
                    /\ (c.net.err = NilErr /\ ~c.net.resp.syntaxOK) => c.out.err.type = "SyntaxError"
                    /\ (c.net.err = NilErr /\ c.net.resp.syntaxOK) =>
                           c.out.err = FacebookErrorError(c.net.resp.Error[1])

\* C10: SendTextMessage is SendMessage on the text message: the same requests
\* posted, the same results, and the instance left in the same state
C10_SendTextMessageIsSendMessage ==
    /\ posts = refPosts
    /\ \A n \in DOMAIN results : results[n].out = refResults[n].out
    /\ msng = ref

====
